---- MODULE Spec2Model ----
(***************************************************************************)
(* StoryKeeper dictionary store (src/db.py): the "dictionary" table of     *)
(* DictionaryDB and the operations that write it.  A row of the table is a *)
(* record of its six data columns; the table is the set of its rows.  The  *)
(* UNIQUE(word, category, part_of_speech, sense_number) constraint and the *)
(* INSERT OR REPLACE conflict clause are modelled in Upsert; the           *)
(* "with self.conn:" blocks (commit on normal exit, rollback on an         *)
(* exception) are modelled in Transaction.  Text columns hold text and     *)
(* sense_number holds an integer, as the type hints of db.py declare.      *)
(***************************************************************************)
EXTENDS Integers, Sequences, FiniteSets, TLC

VARIABLES
  entries,   \* the rows of the dictionary table of the store
  pre,       \* the dictionary table before the recorded call(s)
  first,     \* the call before the last one, when two add_entry calls are recorded
  last,      \* the last call: its name, arguments and whether it raised
  new_db,    \* the dictionary table of a second store (test_db.py: new_db)
  contexts,  \* the contexts table: how many rows hold each name
  settings,  \* the settings table: the value of each key that has a row
  before,    \* the contexts and settings tables before the recorded call
  source,    \* the store a project archive is exported from
  archive,   \* the members of the exported project archive
  text,      \* the words of the document in the editor
  marked     \* the words highlight_word was called with in the last spellcheck

vars == <<entries, pre, first, last, new_db, contexts, settings, before,
          source, archive, text, marked>>

\* The state outside the dictionary table and its call record.
rest == <<contexts, settings, before, source, archive, text, marked>>

----------------------------------------------------------------------------
(* Bounds of the model. *)

\* Largest number of rows the dictionary table holds in the model.
MaxRows == 2

\* Longest batch (add_multiple_entries) or payload (import_dictionary).
MaxBatch == 2

----------------------------------------------------------------------------
(* Input domains. A word is the sequence of its characters. *)

Words == { <<"k", "a">>, <<"K", "a">>, <<"z", "o">> }

Categories == { "Species", "General" }

POS == { "Noun" }

\* A meaning: a definition with its context hint.
Meanings == { <<"An alien species.", "Planet">>, <<"A constellation.", "Event">> }

Senses == { 1, 2 }

\* An optional argument is the empty set (None) or a singleton (a value).
None == {}

Some(v) == { v }

----------------------------------------------------------------------------
(* str.lower(), character by character. *)

LowerOf == ("K" :> "k") @@ ("Z" :> "z")

LowerChar(c) == IF c \in DOMAIN LowerOf THEN LowerOf[c] ELSE c

Lower(w) == [i \in DOMAIN w |-> LowerChar(w[i])]

----------------------------------------------------------------------------
(* The dictionary table. *)

DefaultSense == 1

Row(w, c, p, d, x, s) ==
  [word |-> w, category |-> c, part_of_speech |-> p,
   definition |-> d, context_hint |-> x, sense_number |-> s]

KeyOf(r) == <<r.word, r.category, r.part_of_speech, r.sense_number>>

\* Mutant of Upsert: a plain INSERT into a table without the UNIQUE constraint.
Upsert_append(tbl, r) == tbl \cup { r }

\* INSERT OR REPLACE INTO dictionary ...: the rows that conflict with the new
\* row on the UNIQUE columns are deleted, then the new row is inserted.
Upsert(tbl, r) == { q \in tbl : KeyOf(q) # KeyOf(r) } \cup { r }

\* Mutant of Transaction: every statement is committed as it runs.
Transaction_autocommit(snapshot, body) == body.tbl

\* "with self.conn:": the table after the block, given the table before it
\* and the outcome of the body (the working table and whether it raised).
Transaction(snapshot, body) ==
  IF body.raised THEN snapshot ELSE body.tbl

Done(tbl) == [tbl |-> tbl, raised |-> FALSE]

Raise(tbl) == [tbl |-> tbl, raised |-> TRUE]

----------------------------------------------------------------------------
(* CRUD methods. Each returns [tbl, raised]: the table after the call and   *)
(* whether the call raised an exception.                                   *)

\* Mutant of add_entry_body: INSERT OR IGNORE, the first row of a key stays.
add_entry_body_ignore(tbl, word, category, pos, definition, context, sense_number) ==
  LET r == Row(Lower(word), category, pos, definition, context, sense_number)
  IN  Done(IF \E q \in tbl : KeyOf(q) = KeyOf(r) THEN tbl ELSE tbl \cup { r })

add_entry_body(tbl, word, category, pos, definition, context, sense_number) ==
  Done(Upsert(tbl, Row(Lower(word), category, pos, definition, context, sense_number)))

add_entry(tbl, word, category, pos, definition, context, sense_number) ==
  LET body == add_entry_body(tbl, word, category, pos, definition, context, sense_number)
  IN  [tbl |-> Transaction(tbl, body), raised |-> body.raised]

\* The for loop of add_multiple_entries: a tuple that does not unpack into
\* (pos, definition, context, sense_number) raises ValueError where it stands.
RECURSIVE add_multiple_entries_loop(_, _, _, _)
add_multiple_entries_loop(tbl, word, category, batch) ==
  IF batch = <<>> THEN Done(tbl)
  ELSE LET t == Head(batch)
       IN  IF Len(t) # 4 THEN Raise(tbl)
           ELSE add_multiple_entries_loop(
                  Upsert(tbl, Row(Lower(word), category, t[1], t[2], t[3], t[4])),
                  word, category, Tail(batch))

add_multiple_entries(tbl, word, category, batch) ==
  LET body == add_multiple_entries_loop(tbl, word, category, batch)
  IN  [tbl |-> Transaction(tbl, body), raised |-> body.raised]

\* Mutant of delete_entry_body: the word is matched as given, not lowercased.
delete_entry_body_as_given(tbl, word, sense_number) ==
  IF sense_number # None
  THEN Done({ q \in tbl : ~(q.word = word /\ Some(q.sense_number) = sense_number) })
  ELSE Done({ q \in tbl : q.word # word })

delete_entry_body(tbl, word, sense_number) ==
  IF sense_number # None
  THEN Done({ q \in tbl : ~(q.word = Lower(word) /\ Some(q.sense_number) = sense_number) })
  ELSE Done({ q \in tbl : q.word # Lower(word) })

delete_entry(tbl, word, sense_number) ==
  LET body == delete_entry_body(tbl, word, sense_number)
  IN  [tbl |-> Transaction(tbl, body), raised |-> body.raised]

get_words_list(tbl) == { q.word : q \in tbl }

----------------------------------------------------------------------------
(* Export / import. *)

\* Code points of the characters of the model's words (ORDER BY word compares
\* text byte by byte).
CodePoint == ("K" :> 75) @@ ("Z" :> 90) @@ ("a" :> 97) @@ ("k" :> 107)
             @@ ("o" :> 111) @@ ("z" :> 122)

RECURSIVE WordLess(_, _)
WordLess(a, b) ==
  IF b = <<>> THEN FALSE
  ELSE IF a = <<>> THEN TRUE
  ELSE IF Head(a) # Head(b) THEN CodePoint[Head(a)] < CodePoint[Head(b)]
  ELSE WordLess(Tail(a), Tail(b))

\* Mutant of OrderedBefore: ORDER BY word, sense_number DESC
OrderedBefore_sense_desc(q, r) ==
  \/ WordLess(q.word, r.word)
  \/ q.word = r.word /\ q.sense_number >= r.sense_number

\* ORDER BY word, sense_number
OrderedBefore(q, r) ==
  \/ WordLess(q.word, r.word)
  \/ q.word = r.word /\ q.sense_number <= r.sense_number

\* SELECT ... FROM dictionary ORDER BY word, sense_number: the rows as a
\* sequence in that order (rows equal in word and sense_number come in an
\* order SQL leaves to the engine).
get_all_entries(tbl) ==
  CHOOSE s \in [1..Cardinality(tbl) -> tbl] :
    /\ \A r \in tbl : \E i \in DOMAIN s : s[i] = r
    /\ \A i, j \in DOMAIN s : i < j => OrderedBefore(s[i], s[j])

\* Mutant of export_dictionary: sense_number is left out of the export.
export_dictionary_no_sense(tbl) ==
  LET rows == get_all_entries(tbl)
  IN  [i \in DOMAIN rows |->
        [word |-> rows[i].word, category |-> rows[i].category,
         part_of_speech |-> rows[i].part_of_speech,
         definition |-> rows[i].definition,
         context_hint |-> rows[i].context_hint]]

export_dictionary(tbl) ==
  LET rows == get_all_entries(tbl)
  IN  [i \in DOMAIN rows |->
        [word |-> rows[i].word, category |-> rows[i].category,
         part_of_speech |-> rows[i].part_of_speech,
         definition |-> rows[i].definition,
         context_hint |-> rows[i].context_hint,
         sense_number |-> rows[i].sense_number]]

\* entry["word"], entry["category"], ... raise KeyError when the key is
\* missing; entry.get("sense_number", 1) does not.
RequiredFields == { "word", "category", "part_of_speech", "definition", "context_hint" }

\* Mutant of import_dictionary_loop: INSERT OR IGNORE, the first row of a key
\* stays.
RECURSIVE import_dictionary_loop_ignore(_, _)
import_dictionary_loop_ignore(tbl, data) ==
  IF data = <<>> THEN Done(tbl)
  ELSE LET entry == Head(data)
           r == Row(entry.word, entry.category, entry.part_of_speech,
                    entry.definition, entry.context_hint,
                    IF "sense_number" \in DOMAIN entry
                    THEN entry.sense_number ELSE DefaultSense)
       IN  IF ~(RequiredFields \subseteq DOMAIN entry) THEN Raise(tbl)
           ELSE import_dictionary_loop_ignore(
                  IF \E q \in tbl : KeyOf(q) = KeyOf(r) THEN tbl ELSE tbl \cup { r },
                  Tail(data))

RECURSIVE import_dictionary_loop(_, _)
import_dictionary_loop(tbl, data) ==
  IF data = <<>> THEN Done(tbl)
  ELSE LET entry == Head(data)
       IN  IF ~(RequiredFields \subseteq DOMAIN entry) THEN Raise(tbl)
           ELSE import_dictionary_loop(
                  Upsert(tbl, Row(entry.word, entry.category, entry.part_of_speech,
                                  entry.definition, entry.context_hint,
                                  IF "sense_number" \in DOMAIN entry
                                  THEN entry.sense_number ELSE DefaultSense)),
                  Tail(data))

\* Mutant of import_dictionary_body: replace mode does not purge the table.
import_dictionary_body_no_purge(tbl, data, mode) ==
  import_dictionary_loop(tbl, data)

import_dictionary_body(tbl, data, mode) ==
  import_dictionary_loop(IF mode = "replace" THEN {} ELSE tbl, data)

\* Mutant of import_dictionary: the purge of replace mode is committed before
\* the rows are read.
import_dictionary_purge_committed(tbl, data, mode) ==
  LET body == import_dictionary_body(tbl, data, mode)
  IN  [tbl |-> Transaction(IF mode = "replace" THEN {} ELSE tbl, body),
       raised |-> body.raised]

import_dictionary(tbl, data, mode) ==
  LET body == import_dictionary_body(tbl, data, mode)
  IN  [tbl |-> Transaction(tbl, body), raised |-> body.raised]

----------------------------------------------------------------------------
(* The contexts table.  The table is the number of rows that hold each     *)
(* name (name TEXT UNIQUE is what keeps that number at most one).          *)

\* defaults of _prepopulate_contexts, in the order of the list.
DefaultContexts ==
  << "Species", "Planet", "Language", "Culture", "Artifact",
     "Event", "Location", "Organization", "Concept", "Adjective (race-like)" >>

\* Every context name of the model, in the order ORDER BY name gives them.
NameOrder ==
  << "Adjective (race-like)", "Artifact", "Concept", "Culture", "Event", "Galaxy",
     "Language", "Location", "Organization", "Planet", "Species", "Universe" >>

ContextNames == { NameOrder[i] : i \in DOMAIN NameOrder }

\* The names the calls of the model are made with: two that are not
\* defaults and two defaults.
CallNames == { "Galaxy", "Universe", "Planet", "Event" }

NoContexts == [n \in ContextNames |-> 0]

NamesIn(ctx) == { n \in ContextNames : ctx[n] > 0 }

\* Mutant of InsertOrIgnoreContext: a plain INSERT, without the conflict clause
\* and the UNIQUE constraint.
InsertContext_append(ctx, name) == [ctx EXCEPT ![name] = @ + 1]

\* INSERT OR IGNORE INTO contexts (name) VALUES (?)
InsertOrIgnoreContext(ctx, name) ==
  IF ctx[name] > 0 THEN ctx ELSE [ctx EXCEPT ![name] = 1]

RECURSIVE _prepopulate_contexts_loop(_, _)
_prepopulate_contexts_loop(ctx, defaults) ==
  IF defaults = <<>> THEN ctx
  ELSE _prepopulate_contexts_loop(InsertOrIgnoreContext(ctx, Head(defaults)),
                                  Tail(defaults))

\* Mutant of _prepopulate_contexts: the defaults are inserted only into an
\* empty table.
_prepopulate_contexts_if_empty(ctx) ==
  IF NamesIn(ctx) = {} THEN _prepopulate_contexts_loop(ctx, DefaultContexts) ELSE ctx

_prepopulate_contexts(ctx) == _prepopulate_contexts_loop(ctx, DefaultContexts)

\* SELECT name FROM contexts ORDER BY name
RECURSIVE get_contexts_from(_, _)
get_contexts_from(ctx, i) ==
  IF i > Len(NameOrder) THEN <<>>
  ELSE [k \in 1..ctx[NameOrder[i]] |-> NameOrder[i]] \o get_contexts_from(ctx, i + 1)

get_contexts(ctx) == get_contexts_from(ctx, 1)

add_context(ctx, name) ==
  LET body == Done(InsertOrIgnoreContext(ctx, name))
  IN  [tbl |-> Transaction(ctx, body), raised |-> body.raised]

delete_context(ctx, name) ==
  LET body == Done([ctx EXCEPT ![name] = 0])
  IN  [tbl |-> Transaction(ctx, body), raised |-> body.raised]

\* UPDATE contexts SET name = ? WHERE name = ?: no row matches, or the row
\* keeps its name, or the new name breaks UNIQUE (sqlite3.IntegrityError), or
\* the row is renamed.
rename_context_body(ctx, old_name, new_name) ==
  IF ctx[old_name] = 0 \/ old_name = new_name THEN Done(ctx)
  ELSE IF ctx[new_name] > 0 \/ ctx[old_name] > 1 THEN Raise(ctx)
  ELSE Done([ctx EXCEPT ![old_name] = 0, ![new_name] = ctx[old_name]])

\* Mutant of rename_context: the rename is carried into the context hints of
\* the dictionary rows.
rename_context_cascade(dict, ctx, old_name, new_name) ==
  LET body == rename_context_body(ctx, old_name, new_name)
  IN  [dictionary |-> IF body.raised THEN dict
                      ELSE { IF q.context_hint = old_name
                             THEN [q EXCEPT !.context_hint = new_name] ELSE q : q \in dict },
       tbl |-> Transaction(ctx, body), raised |-> body.raised]

\* The dictionary table is given and returned as well: the statement names
\* the contexts table only.
rename_context(dict, ctx, old_name, new_name) ==
  LET body == rename_context_body(ctx, old_name, new_name)
  IN  [dictionary |-> dict, tbl |-> Transaction(ctx, body), raised |-> body.raised]

export_contexts(ctx) ==
  LET names == get_contexts(ctx)
  IN  [i \in DOMAIN names |-> [name |-> names[i]]]

RECURSIVE import_contexts_loop(_, _)
import_contexts_loop(ctx, data) ==
  IF data = <<>> THEN Done(ctx)
  ELSE LET entry == Head(data)
       IN  IF "name" \notin DOMAIN entry THEN Raise(ctx)
           ELSE import_contexts_loop(InsertOrIgnoreContext(ctx, entry.name), Tail(data))

\* Mutant of import_contexts_body: replace mode does not purge the table.
import_contexts_body_no_purge(ctx, data, mode) ==
  import_contexts_loop(ctx, data)

import_contexts_body(ctx, data, mode) ==
  import_contexts_loop(IF mode = "replace" THEN NoContexts ELSE ctx, data)

import_contexts(ctx, data, mode) ==
  LET body == import_contexts_body(ctx, data, mode)
  IN  [tbl |-> Transaction(ctx, body), raised |-> body.raised]

----------------------------------------------------------------------------
(* The settings table: a function from the keys that have a row.           *)

NoSettings == << >>

SettingKeys == { "auto_learn_contexts" }

SettingValues == { "true", "false" }

get_setting(st, key, default) ==
  IF key \in DOMAIN st THEN st[key] ELSE default

\* INSERT OR REPLACE INTO settings (key, value) VALUES (?, ?)
set_setting(st, key, value) ==
  LET body == Done([k \in DOMAIN st \cup { key } |-> IF k = key THEN value ELSE st[k]])
  IN  [tbl |-> Transaction(st, body), raised |-> body.raised]

----------------------------------------------------------------------------
(* DictionaryDB.__init__ on a store file: the three tables are created if    *)
(* they do not exist, the columns the dictionary table lacks are added      *)
(* (none, for a table this class created), and the defaults are inserted.  *)

Store(dict, ctx, st) == [dictionary |-> dict, contexts |-> ctx, settings |-> st]

\* The tables CREATE TABLE IF NOT EXISTS makes in a new file.
EmptyStore == Store({}, NoContexts, NoSettings)

DictionaryDB_init(store) ==
  [store EXCEPT !.contexts = _prepopulate_contexts(store.contexts)]

FreshStore == DictionaryDB_init(EmptyStore)

----------------------------------------------------------------------------
(* Inputs of the batch operations. *)

\* Sequences over S of length at most n.
SeqsUpTo(S, n) == UNION { [1..k -> S] : k \in 0..n }

\* (pos, definition, context, sense_number) tuples, and one that is too short.
BatchTuples ==
  { <<p, m[1], m[2], s>> : p \in POS, m \in Meanings, s \in Senses }
  \cup { <<"Noun">> }

Without(r, f) == [c \in DOMAIN r \ { f } |-> r[c]]

\* Payload rows of an import: two rows of one key with different meanings, a
\* row with an upper-case word and no sense_number, two rows of another word
\* (one without sense_number), and a row that lacks a required field.
ImportRows ==
  { Row(<<"k", "a">>, "Species", "Noun", "An alien species.", "Planet", 2),
    Row(<<"k", "a">>, "Species", "Noun", "A constellation.", "Event", 2),
    Without(Row(<<"K", "a">>, "General", "Noun", "An alien species.", "Planet", 1),
            "sense_number"),
    Row(<<"z", "o">>, "Species", "Noun", "A constellation.", "Event", 1),
    Without(Row(<<"z", "o">>, "Species", "Noun", "An alien species.", "Planet", 1),
            "sense_number"),
    Without(Row(<<"k", "a">>, "General", "Noun", "A constellation.", "Event", 1),
            "definition") }

Modes == { "merge", "replace" }

----------------------------------------------------------------------------
(* Operations of the state machine.  Each action is one call of a method   *)
(* of DictionaryDB on the store; pre, first and last record the call for   *)
(* the properties below, and Return discards the record.                   *)

NoCall == [op |-> "none", word |-> <<>>, category |-> "", row |-> <<>>,
           seq |-> <<>>, sense |-> None, mode |-> "", raised |-> FALSE,
           name |-> "", new_name |-> "", key |-> "", value |-> "",
           include_dict |-> FALSE, include_ctx |-> FALSE,
           dict_mode |-> "", ctx_mode |-> "", unknown |-> {}]

Idle == last = NoCall

Fits(tbl) == Cardinality(tbl) <= MaxRows

NoSnapshot == [contexts |-> NoContexts, settings |-> NoSettings]

NoArchive == << >>

\* The state outside the store: nothing recorded, no archive, an empty document.
Quiet ==
  /\ pre = {}
  /\ first = NoCall
  /\ last = NoCall
  /\ new_db = {}
  /\ before = NoSnapshot
  /\ source = EmptyStore
  /\ archive = NoArchive
  /\ text = <<>>
  /\ marked = {}

Init ==
  /\ entries = FreshStore.dictionary
  /\ contexts = FreshStore.contexts
  /\ settings = FreshStore.settings
  /\ Quiet

AddEntry ==
  /\ Idle
  /\ \E w \in Words, c \in Categories, p \in POS, m \in Meanings, s \in Senses :
       LET res == add_entry(entries, w, c, p, m[1], m[2], s)
       IN  /\ Fits(res.tbl)
           /\ entries' = res.tbl
           /\ pre' = entries
           /\ last' = [NoCall EXCEPT !.op = "add_entry", !.word = w, !.category = c,
                                     !.row = <<p, m[1], m[2], s>>,
                                     !.raised = res.raised]
           /\ UNCHANGED <<first, new_db>>
           /\ UNCHANGED rest

\* A second add_entry on the key of the call just recorded.
AddEntryAgain ==
  /\ last.op = "add_entry"
  /\ first = NoCall
  /\ \E w \in Words, m \in Meanings :
       LET res == add_entry(entries, w, last.category, last.row[1], m[1], m[2],
                            last.row[4])
       IN  /\ Lower(w) = Lower(last.word)
           /\ Fits(res.tbl)
           /\ entries' = res.tbl
           /\ first' = last
           /\ last' = [last EXCEPT !.word = w, !.row = <<last.row[1], m[1], m[2], last.row[4]>>,
                                   !.raised = res.raised]
           /\ UNCHANGED <<pre, new_db>>
           /\ UNCHANGED rest

AddMultipleEntries ==
  /\ Idle
  /\ \E w \in Words, c \in Categories, batch \in SeqsUpTo(BatchTuples, MaxBatch) :
       LET res == add_multiple_entries(entries, w, c, batch)
       IN  /\ Fits(res.tbl)
           /\ entries' = res.tbl
           /\ pre' = entries
           /\ last' = [NoCall EXCEPT !.op = "add_multiple_entries", !.word = w,
                                     !.category = c, !.seq = batch,
                                     !.raised = res.raised]
           /\ UNCHANGED <<first, new_db>>
           /\ UNCHANGED rest

DeleteEntry ==
  /\ Idle
  /\ \E w \in Words, s \in { None } \cup { Some(n) : n \in Senses } :
       LET res == delete_entry(entries, w, s)
       IN  /\ entries' = res.tbl
           /\ pre' = entries
           /\ last' = [NoCall EXCEPT !.op = "delete_entry", !.word = w, !.sense = s,
                                     !.raised = res.raised]
           /\ UNCHANGED <<first, new_db>>
           /\ UNCHANGED rest

ImportDictionary ==
  /\ Idle
  /\ \E data \in SeqsUpTo(ImportRows, MaxBatch), mode \in Modes :
       LET res == import_dictionary(entries, data, mode)
       IN  /\ Fits(res.tbl)
           /\ entries' = res.tbl
           /\ pre' = entries
           /\ last' = [NoCall EXCEPT !.op = "import_dictionary", !.seq = data,
                                     !.mode = mode, !.raised = res.raised]
           /\ UNCHANGED <<first, new_db>>
           /\ UNCHANGED rest

\* test_export_and_import_dictionary: export the store and import the
\* export, in merge mode, into a freshly initialised store.
ExportImport ==
  /\ Idle
  /\ LET exported == export_dictionary(entries)
         res == import_dictionary({}, exported, "merge")
     IN  /\ new_db' = res.tbl
         /\ last' = [NoCall EXCEPT !.op = "export_import", !.seq = exported,
                                   !.mode = "merge", !.raised = res.raised]
         /\ pre' = entries
         /\ UNCHANGED <<entries, first>>
         /\ UNCHANGED rest

----------------------------------------------------------------------------
(* DictionaryManager: the list of the dictionary dialog and the deletion   *)
(* of a selected item. An item text is a sequence of lines, a line a      *)
(* sequence of characters and of the texts formatted into it.             *)

\* f"{word} [{category}]"
WordKey(word, category) == word \o << " ", "[", category, "]" >>

\* f"  - ({sense_number}) {pos}: {definition} ({context})" after strip()
DetailLine(q) ==
  << "-", " ", "(", q.sense_number, ")", " ", q.part_of_speech, ":", " ",
     q.definition, " ", "(", q.context_hint, ")" >>

\* The rows of get_all_entries that fall under one key of `grouped`.
DetailsOf(tbl, word, category) ==
  SelectSeq(get_all_entries(tbl), LAMBDA q : q.word = word /\ q.category = category)

\* The item texts of the list: one per (word, category) that has a row.
refresh_word_list(tbl) ==
  { LET details == DetailsOf(tbl, q.word, q.category)
    IN  << WordKey(q.word, q.category) >>
          \o [i \in DOMAIN details |-> DetailLine(details[i])] : q \in tbl }

\* lines[0].split(" [")[0]
RECURSIVE BeforeBracket(_)
BeforeBracket(line) ==
  IF line = <<>> THEN <<>>
  ELSE IF Len(line) >= 2 /\ line[1] = " " /\ line[2] = "[" THEN <<>>
  ELSE << Head(line) >> \o BeforeBracket(Tail(line))

\* lines[1].strip().split()[0], when it starts with "(" and ends with ")",
\* read as an integer; None when it does not have that form.
SenseOfLine(line) ==
  IF Len(line) >= 5 /\ line[3] = "(" /\ line[5] = ")" /\ line[4] \in Int
  THEN Some(line[4]) ELSE None

\* The body of the loop of delete_selected for one selected item, after the
\* question was answered with Yes.
delete_selected(tbl, lines) ==
  LET word == BeforeBracket(lines[1])
  IN  IF Len(lines) > 2 THEN delete_entry(tbl, word, None)
      ELSE IF Len(lines) > 1 THEN delete_entry(tbl, word, SenseOfLine(lines[2]))
      ELSE delete_entry(tbl, word, None)

\* One item of the list is selected and its deletion confirmed.
DeleteSelected ==
  /\ Idle
  /\ \E lines \in refresh_word_list(entries) :
       LET res == delete_selected(entries, lines)
           key == lines[1]
       IN  /\ entries' = res.tbl
           /\ pre' = entries
           /\ last' = [NoCall EXCEPT !.op = "delete_selected",
                                     !.word = BeforeBracket(key),
                                     !.category = key[Len(key) - 1],
                                     !.raised = res.raised]
           /\ UNCHANGED <<first, new_db>>
           /\ UNCHANGED rest


\* The recorded call is discarded; the store is as the call left it.
Return ==
  /\ ~Idle
  /\ pre' = {}
  /\ first' = NoCall
  /\ last' = NoCall
  /\ new_db' = {}
  /\ before' = NoSnapshot
  /\ marked' = {}
  /\ UNCHANGED <<entries, contexts, settings, source, archive, text>>

Next ==
  \/ AddEntry
  \/ AddEntryAgain
  \/ AddMultipleEntries
  \/ DeleteEntry
  \/ ImportDictionary
  \/ ExportImport
  \/ DeleteSelected
  \/ Return

Spec == Init /\ [][Next]_vars


----------------------------------------------------------------------------
(* The contexts and settings of a store whose dictionary holds the rows of *)
(* at most one add_entry call.                                             *)

\* The dictionary tables one add_entry call makes in a new store, and the
\* empty one.
SampleTables ==
  { {} } \cup
  { add_entry({}, w, c, p, m[1], m[2], s).tbl :
      w \in Words, c \in Categories, p \in POS, m \in Meanings, s \in Senses }

\* Payload rows of import_contexts, and one without the "name" key.
ContextRows == { [name |-> n] : n \in CallNames } \cup { [label |-> "Galaxy"] }

Snapshot == [contexts |-> contexts, settings |-> settings]

InitContexts ==
  /\ entries \in SampleTables
  /\ contexts = FreshStore.contexts
  /\ settings = FreshStore.settings
  /\ Quiet

AddContext ==
  /\ Idle
  /\ \E n \in CallNames :
       LET res == add_context(contexts, n)
       IN  /\ contexts' = res.tbl
           /\ before' = Snapshot
           /\ pre' = entries
           /\ last' = [NoCall EXCEPT !.op = "add_context", !.name = n,
                                     !.raised = res.raised]
           /\ UNCHANGED <<entries, first, new_db, settings, source, archive, text, marked>>

\* A second add_context with the name of the call just recorded.
AddContextAgain ==
  /\ last.op = "add_context"
  /\ first = NoCall
  /\ LET res == add_context(contexts, last.name)
     IN  /\ contexts' = res.tbl
         /\ first' = last
         /\ last' = [last EXCEPT !.raised = res.raised]
         /\ UNCHANGED <<entries, pre, new_db, settings, before, source, archive,
                        text, marked>>

DeleteContext ==
  /\ Idle
  /\ \E n \in CallNames :
       LET res == delete_context(contexts, n)
       IN  /\ contexts' = res.tbl
           /\ before' = Snapshot
           /\ pre' = entries
           /\ last' = [NoCall EXCEPT !.op = "delete_context", !.name = n,
                                     !.raised = res.raised]
           /\ UNCHANGED <<entries, first, new_db, settings, source, archive, text, marked>>

RenameContext ==
  /\ Idle
  /\ \E old \in CallNames, new \in CallNames :
       LET res == rename_context(entries, contexts, old, new)
       IN  /\ contexts' = res.tbl
           /\ entries' = res.dictionary
           /\ before' = Snapshot
           /\ pre' = entries
           /\ last' = [NoCall EXCEPT !.op = "rename_context", !.name = old,
                                     !.new_name = new, !.raised = res.raised]
           /\ UNCHANGED <<first, new_db, settings, source, archive, text, marked>>

ImportContexts ==
  /\ Idle
  /\ \E data \in SeqsUpTo(ContextRows, MaxBatch), mode \in Modes :
       LET res == import_contexts(contexts, data, mode)
       IN  /\ contexts' = res.tbl
           /\ before' = Snapshot
           /\ pre' = entries
           /\ last' = [NoCall EXCEPT !.op = "import_contexts", !.seq = data,
                                     !.mode = mode, !.raised = res.raised]
           /\ UNCHANGED <<entries, first, new_db, settings, source, archive, text, marked>>

SetSetting ==
  /\ Idle
  /\ \E k \in SettingKeys, v \in SettingValues :
       LET res == set_setting(settings, k, v)
       IN  /\ settings' = res.tbl
           /\ before' = Snapshot
           /\ pre' = entries
           /\ last' = [NoCall EXCEPT !.op = "set_setting", !.key = k, !.value = v,
                                     !.raised = res.raised]
           /\ UNCHANGED <<entries, first, new_db, contexts, source, archive, text, marked>>

\* DictionaryDB is constructed again on the store.
Reopen ==
  /\ Idle
  /\ LET store == DictionaryDB_init(Store(entries, contexts, settings))
     IN  /\ entries' = store.dictionary
         /\ contexts' = store.contexts
         /\ settings' = store.settings
         /\ before' = Snapshot
         /\ pre' = entries
         /\ last' = [NoCall EXCEPT !.op = "__init__"]
         /\ UNCHANGED <<first, new_db, source, archive, text, marked>>

NextContexts ==
  \/ AddContext
  \/ AddContextAgain
  \/ DeleteContext
  \/ RenameContext
  \/ ImportContexts
  \/ SetSetting
  \/ Reopen
  \/ Return

SpecContexts == InitContexts /\ [][NextContexts]_vars


----------------------------------------------------------------------------
(* StoryKeeper.export_project and import_project. An archive is a function *)
(* from the names of the members it holds to their contents; a JSON member *)
(* holds the list that json.load returns for what json.dump wrote, which   *)
(* for lists of dicts of strings and integers is the list that was dumped. *)

\* The document of the text editor: a sequence of words.
Documents == { <<>>, << <<"z", "o">> >> }

\* The items of the combo boxes of ImportDialog.
ModeItems == { "Merge", "Replace", "Skip" }

\* Mutant of currentText_lower: the item text is used as shown.
currentText_as_shown(item) == item

\* dialog.dict_mode.currentText().lower()
currentText_lower(item) ==
  CASE item = "Merge" -> "merge"
    [] item = "Replace" -> "replace"
    [] item = "Skip" -> "skip"

\* `if dictionary_data:` / `if context_data:` for a value that is None or a
\* list: None and the empty list are both false.
Truthy(data) == \E d \in data : d # <<>>

Member(name, content) == [n \in { name } |-> content]

\* json.dump of the data into the member of that name, when it is truthy.
DumpIf(name, data) ==
  IF Truthy(data) THEN Member(name, CHOOSE d \in data : TRUE) ELSE << >>

\* The archive export_project writes for a store and a document.
export_project(store, document, include_dict, include_ctx) ==
  LET dictionary_data == IF include_dict THEN Some(export_dictionary(store.dictionary))
                         ELSE None
      context_data == IF include_ctx THEN Some(export_contexts(store.contexts)) ELSE None
  IN  DumpIf("dictionary.json", dictionary_data)
      @@ DumpIf("contexts.json", context_data)
      @@ Member("content.txt", document)

\* import_project of an archive into a store: the store and the document
\* after it, and whether an exception left the method. The two imports
\* are two transactions; an exception ends the method where it is raised.
import_project(store, document, zipf, dict_item, ctx_item) ==
  LET dict_mode == currentText_lower(dict_item)
      ctx_mode == currentText_lower(ctx_item)
      dict_res == IF "dictionary.json" \in DOMAIN zipf /\ dict_mode # "skip"
                  THEN import_dictionary(store.dictionary, zipf["dictionary.json"], dict_mode)
                  ELSE [tbl |-> store.dictionary, raised |-> FALSE]
      ctx_res == IF dict_res.raised THEN [tbl |-> store.contexts, raised |-> TRUE]
                 ELSE IF "contexts.json" \in DOMAIN zipf /\ ctx_mode # "skip"
                 THEN import_contexts(store.contexts, zipf["contexts.json"], ctx_mode)
                 ELSE [tbl |-> store.contexts, raised |-> FALSE]
  IN  [store |-> [store EXCEPT !.dictionary = dict_res.tbl, !.contexts = ctx_res.tbl],
       document |-> IF ~ctx_res.raised /\ "content.txt" \in DOMAIN zipf
                    THEN zipf["content.txt"] ELSE document,
       raised |-> ctx_res.raised]

\* Dictionary tables of the stores of this part: empty, one row, and the
\* row of another word.
ProjectTables ==
  { {},
    add_entry({}, <<"k", "a">>, "Species", "Noun", "An alien species.", "Planet", 2).tbl,
    add_entry({}, <<"z", "o">>, "General", "Noun", "A constellation.", "Event", 1).tbl }

\* Contexts tables: the defaults, the defaults and one more, and the table
\* after every context was deleted.
ProjectContexts ==
  { FreshStore.contexts,
    add_context(FreshStore.contexts, "Galaxy").tbl,
    import_contexts(FreshStore.contexts, <<>>, "replace").tbl }

ProjectStores ==
  { Store(d, c, NoSettings) : d \in ProjectTables, c \in ProjectContexts }

\* Archives that export_project did not write: no JSON member, a member
\* whose row lacks a key, and members of well-formed rows.
ForeignArchives ==
  { Member("content.txt", <<>>),
    Member("dictionary.json",
           << Without(Row(<<"k", "a">>, "General", "Noun", "A constellation.", "Event", 1),
                      "definition") >>)
      @@ Member("contexts.json", << [name |-> "Universe"] >>),
    Member("dictionary.json",
           << Row(<<"k", "a">>, "General", "Noun", "A constellation.", "Event", 1) >>)
      @@ Member("contexts.json", << [label |-> "Galaxy"] >>) }

InitProject ==
  /\ \E b \in ProjectStores :
       /\ entries = b.dictionary
       /\ contexts = b.contexts
       /\ settings = b.settings
  /\ source \in ProjectStores
  /\ archive \in { NoArchive } \cup ForeignArchives
  /\ text \in Documents
  /\ pre = {} /\ first = NoCall /\ last = NoCall /\ new_db = {}
  /\ before = NoSnapshot /\ marked = {}

\* The source store is exported, with its own document.
ExportProject ==
  /\ Idle
  /\ \E include_dict \in BOOLEAN, include_ctx \in BOOLEAN, document \in Documents :
       /\ archive' = export_project(source, document, include_dict, include_ctx)
       /\ last' = [NoCall EXCEPT !.op = "export_project",
                                 !.include_dict = include_dict,
                                 !.include_ctx = include_ctx]
       /\ UNCHANGED <<entries, pre, first, new_db, contexts, settings, before, source,
                      text, marked>>

\* The archive is imported into the store, right after the export or later.
ImportProject ==
  /\ Idle \/ (last.op = "export_project" /\ first = NoCall)
  /\ archive # NoArchive
  /\ \E dict_item \in ModeItems, ctx_item \in ModeItems :
       LET res == import_project(Store(entries, contexts, settings), text, archive,
                                 dict_item, ctx_item)
       IN  /\ entries' = res.store.dictionary
           /\ contexts' = res.store.contexts
           /\ text' = res.document
           /\ pre' = entries
           /\ before' = Snapshot
           /\ first' = last
           /\ last' = [NoCall EXCEPT !.op = "import_project", !.dict_mode = dict_item,
                                     !.ctx_mode = ctx_item, !.raised = res.raised]
           /\ UNCHANGED <<new_db, settings, source, archive, marked>>

NextProject ==
  \/ ExportProject
  \/ ImportProject
  \/ Return

SpecProject == InitProject /\ [][NextProject]_vars


----------------------------------------------------------------------------
(* SpellCheckTextEdit. The document is a sequence of the tokens that        *)
(* text.split() gives; marked is the set of words highlight_word was       *)
(* called with in the last run of run_spellcheck.                          *)

Letters == DOMAIN CodePoint

Punctuation == { ".", ",", "!", "?", ";", ":" }

\* str.isalpha()
IsAlpha(w) == w # <<>> /\ \A i \in DOMAIN w : w[i] \in Letters

\* w.strip(".,!?;:")
RECURSIVE StripPunctuation(_)
StripPunctuation(w) ==
  IF w = <<>> THEN w
  ELSE IF Head(w) \in Punctuation THEN StripPunctuation(Tail(w))
  ELSE IF w[Len(w)] \in Punctuation THEN StripPunctuation(SubSeq(w, 1, Len(w) - 1))
  ELSE w

\* [w.strip(".,!?;:") for w in text.split() if w.isalpha()], as a set
WordsOf(document) ==
  { StripPunctuation(document[i]) : i \in { j \in DOMAIN document : IsAlpha(document[j]) } }

\* What spellchecker.unknown(words) can return: the library is not part of
\* the sources, so any set of the words and of their lower-case forms.
UnknownSets(words) == SUBSET (words \cup { Lower(w) : w \in words })

\* Mutant of custom_words_lower: the words are taken as stored.
custom_words_as_stored(tbl) == get_words_list(tbl)

\* set(w.lower() for w in self.db.get_words_list())
custom_words_lower(tbl) == { Lower(w) : w \in get_words_list(tbl) }

\* The words run_spellcheck calls highlight_word with, for one answer of
\* the spellchecker.
run_spellcheck(tbl, document, misspelled) ==
  IF WordsOf(document) = {} THEN {}
  ELSE { word \in misspelled : Lower(word) \notin custom_words_lower(tbl) }

\* MultiPOSDialog.save_entries for one part of speech with a definition:
\* the context is added to the contexts table when auto-learn is on.
save_entries(ctx, st, context) ==
  IF get_setting(st, "auto_learn_contexts", "false") = "true" /\ context # ""
  THEN add_context(ctx, context).tbl ELSE ctx

\* Documents of the editor.
SpellDocuments ==
  { <<>>,
    << <<"k", "a">> >>,
    << <<"K", "a">>, <<"z", "o">> >>,
    << <<"k", "a">>, <<"z", "o", ".">> >>,
    << <<"z", "o">>, <<"K", "a">>, <<"k", "a">> >> }

\* Dictionary tables at the start: empty, an imported row of an upper-case
\* word, and a row written by add_entry.
SpellTables ==
  { {},
    import_dictionary({}, << Row(<<"K", "a">>, "General", "Noun", "An alien species.",
                                 "Planet", 1) >>, "merge").tbl,
    add_entry({}, <<"z", "o">>, "General", "Noun", "A constellation.", "Event", 1).tbl }

\* What the dialog is filled with: category text, and one meaning.
DialogCategories == { "", "General" }

DialogEntries ==
  { << <<p, "A far place.", "Galaxy", s>> >> : p \in POS, s \in Senses }
    \cup { << <<p, "A made-up word.", "", s>> >> : p \in POS, s \in Senses }

InitSpellcheck ==
  /\ entries \in SpellTables
  /\ contexts = FreshStore.contexts
  /\ settings \in { NoSettings, set_setting(NoSettings, "auto_learn_contexts", "true").tbl }
  /\ text \in SpellDocuments
  /\ pre = {} /\ first = NoCall /\ last = NoCall /\ new_db = {}
  /\ before = NoSnapshot /\ source = EmptyStore /\ archive = NoArchive /\ marked = {}

\* The debounce timer fires.
RunSpellcheck ==
  /\ Idle
  /\ \E misspelled \in UnknownSets(WordsOf(text)) :
       /\ marked' = run_spellcheck(entries, text, misspelled)
       /\ pre' = entries
       /\ last' = [NoCall EXCEPT !.op = "run_spellcheck", !.unknown = misspelled]
       /\ UNCHANGED <<entries, first, new_db, contexts, settings, before, source,
                      archive, text>>

\* contextMenuEvent on a word of the document that is not in the dictionary:
\* the add action is chosen, the dialog is accepted with one meaning, the
\* meaning is stored and the spellcheck runs again.
ContextMenuAdd ==
  /\ Idle
  /\ \E i \in DOMAIN text, category \in DialogCategories, dialog_entries \in DialogEntries :
       LET selected_word == text[i]
           res == add_multiple_entries(entries, selected_word, category, dialog_entries)
       IN  /\ IsAlpha(selected_word)
           /\ Lower(selected_word) \notin get_words_list(entries)
           /\ entries' = res.tbl
           /\ contexts' = save_entries(contexts, settings, dialog_entries[1][3])
           /\ \E misspelled \in UnknownSets(WordsOf(text)) :
                /\ marked' = run_spellcheck(res.tbl, text, misspelled)
                /\ last' = [NoCall EXCEPT !.op = "contextMenuEvent",
                                          !.word = selected_word,
                                          !.category = category,
                                          !.seq = dialog_entries,
                                          !.unknown = misspelled,
                                          !.raised = res.raised]
           /\ pre' = entries
           /\ before' = Snapshot
           /\ UNCHANGED <<first, new_db, settings, source, archive, text>>

NextSpellcheck ==
  \/ RunSpellcheck
  \/ ContextMenuAdd
  \/ DeleteEntry
  \/ Return

SpecSpellcheck == InitSpellcheck /\ [][NextSpellcheck]_vars

----------------------------------------------------------------------------
(* Properties. *)

RowsOfKey(tbl, k) == { q \in tbl : KeyOf(q) = k }

RowsNotOfKey(tbl, k) == { q \in tbl : KeyOf(q) # k }

KeysOf(tbl) == { KeyOf(q) : q \in tbl }

\* The key an add_entry call writes: the word is stored in lower case.
CallKey(call) == <<Lower(call.word), call.category, call.row[1], call.row[4]>>

\* C1: in every reachable state of the store no two rows of the dictionary
\* table share (word, category, part_of_speech, sense_number).
C1_UniqueKey ==
  \A q, r \in entries : KeyOf(q) = KeyOf(r) => q = r

\* A merge import has overwritten a row of the table: the key is still there,
\* with another meaning.
C1_Witness ==
  /\ last.op = "import_dictionary"
  /\ last.mode = "merge"
  /\ \E q \in pre, r \in entries : KeyOf(q) = KeyOf(r) /\ q # r

\* C2: add_entry with d1 and then add_entry with d2 # d1 on the same key
\* leaves exactly one row of that key, holding d2 and the context hint of the
\* second call, and leaves the rows of every other key as they were before
\* the first call.
C2_OverwriteLaw ==
  (first.op = "add_entry" /\ last.op = "add_entry"
     /\ CallKey(first) = CallKey(last) /\ first.row[2] # last.row[2])
  => /\ Cardinality(RowsOfKey(entries, CallKey(last))) = 1
     /\ \A q \in RowsOfKey(entries, CallKey(last)) :
          q.definition = last.row[2] /\ q.context_hint = last.row[3]
     /\ RowsNotOfKey(entries, CallKey(last)) = RowsNotOfKey(pre, CallKey(last))
     /\ ~first.raised /\ ~last.raised

\* Two add_entry calls on one key with different definitions, on a store that
\* held a row of another key.
C2_Witness ==
  /\ first.op = "add_entry" /\ last.op = "add_entry"
  /\ CallKey(first) = CallKey(last)
  /\ first.row[2] # last.row[2]
  /\ RowsNotOfKey(pre, CallKey(last)) # {}

WellFormedTuple(t) == Len(t) = 4

\* The row a well-formed batch tuple writes for the recorded call.
BatchRow(call, t) == Row(Lower(call.word), call.category, t[1], t[2], t[3], t[4])

\* C3: add_multiple_entries is all-or-nothing. If a tuple of the batch fails,
\* the table is the table before the call; if none fails, the table holds, for
\* every key of the batch, the row of the last tuple with that key, and the
\* rows of the other keys are unchanged.
C3_BatchAtomic ==
  last.op = "add_multiple_entries"
  => IF \E i \in DOMAIN last.seq : ~WellFormedTuple(last.seq[i])
     THEN last.raised /\ entries = pre
     ELSE /\ ~last.raised
          /\ \A i \in DOMAIN last.seq :
               LET r == BatchRow(last, last.seq[i])
               IN  \/ r \in entries
                   \/ \E j \in DOMAIN last.seq :
                        j > i /\ KeyOf(BatchRow(last, last.seq[j])) = KeyOf(r)
          /\ \A q \in entries :
               \/ q \in pre
               \/ \E i \in DOMAIN last.seq : q = BatchRow(last, last.seq[i])
          /\ \A q \in pre :
               \/ q \in entries
               \/ \E i \in DOMAIN last.seq : KeyOf(BatchRow(last, last.seq[i])) = KeyOf(q)

\* A batch whose second tuple is malformed and whose first tuple would have
\* written a row the table did not hold.
C3_Witness ==
  /\ last.op = "add_multiple_entries"
  /\ Len(last.seq) = 2
  /\ WellFormedTuple(last.seq[1])
  /\ ~WellFormedTuple(last.seq[2])
  /\ BatchRow(last, last.seq[1]) \notin pre
  /\ pre # {}

WellFormedEntry(e) == RequiredFields \subseteq DOMAIN e

\* C4: an import whose payload holds a row that lacks a required field raises
\* and leaves the table as it was before the call, in both modes.
C4_ImportAtomic ==
  (last.op = "import_dictionary"
     /\ \E i \in DOMAIN last.seq : ~WellFormedEntry(last.seq[i]))
  => last.raised /\ entries = pre

\* A replace import on a table that held rows, with a well-formed row before
\* the malformed one.
C4_Witness ==
  /\ last.op = "import_dictionary"
  /\ last.mode = "replace"
  /\ Len(last.seq) = 2
  /\ WellFormedEntry(last.seq[1])
  /\ ~WellFormedEntry(last.seq[2])
  /\ pre # {}

\* C5: importing the export of a store, in merge mode, into a freshly
\* initialised store gives that store the same get_all_entries() as the
\* exporting store: the same rows, every column preserved.
C5_RoundTrip ==
  last.op = "export_import"
  => /\ ~last.raised
     /\ get_all_entries(new_db) = get_all_entries(entries)

\* The round trip of a store of two rows, one of them of sense 2.
C5_Witness ==
  /\ last.op = "export_import"
  /\ Cardinality(entries) = 2
  /\ \E q \in entries : q.sense_number = 2

\* C6: every word stored in the dictionary table is lower case, whichever
\* write path stored it.
C6_WordsLowercase ==
  \A q \in entries : q.word = Lower(q.word)

\* C7: delete_entry(word, sense_number), when a row of that word and sense
\* exists, removes exactly one row and leaves every other row unchanged.
C7_DeleteOneSense ==
  (last.op = "delete_entry" /\ last.sense # None
     /\ \E q \in pre : q.word = Lower(last.word) /\ Some(q.sense_number) = last.sense)
  => /\ entries \subseteq pre
     /\ Cardinality(pre \ entries) = 1

\* C8: delete_entry(word) without a sense number removes every row whose word
\* is the lowercased argument, whatever its category, part of speech and
\* sense, so that get_words_list no longer returns it; the rows of every other
\* word are unchanged, and with no matching row the call changes nothing and
\* raises nothing.
C8_DeleteWord ==
  (last.op = "delete_entry" /\ last.sense = None)
  => /\ ~last.raised
     /\ entries = { q \in pre : q.word # Lower(last.word) }
     /\ Lower(last.word) \notin get_words_list(entries)
     /\ (Lower(last.word) \notin get_words_list(pre) => entries = pre)

\* delete_entry called with an upper-case spelling on a table that held a row
\* of the word and a row of another word.
C8_Witness ==
  /\ last.op = "delete_entry" /\ last.sense = None
  /\ last.word # Lower(last.word)
  /\ Lower(last.word) \in get_words_list(pre)
  /\ entries # {}

\* The row import_dictionary stores for a well-formed payload row: a missing
\* sense_number is stored as 1.
StoredRow(e) ==
  Row(e.word, e.category, e.part_of_speech, e.definition, e.context_hint,
      IF "sense_number" \in DOMAIN e THEN e.sense_number ELSE 1)

PayloadKeys(data) == { KeyOf(StoredRow(data[i])) : i \in DOMAIN data }

\* The last payload row of a key.
LastOfKey(data, k) ==
  LET i == CHOOSE i \in DOMAIN data :
             /\ KeyOf(StoredRow(data[i])) = k
             /\ \A j \in DOMAIN data : KeyOf(StoredRow(data[j])) = k => j <= i
  IN  StoredRow(data[i])

\* A replace import of well-formed rows into a table whose rows have none of
\* the payload's keys.
ReplaceOfUnrelated ==
  /\ last.op = "import_dictionary"
  /\ last.mode = "replace"
  /\ \A i \in DOMAIN last.seq : WellFormedEntry(last.seq[i])
  /\ KeysOf(pre) \cap PayloadKeys(last.seq) = {}

\* C9 as stated: a replace import of N well-formed rows into a table of M
\* unrelated rows leaves exactly N rows: no earlier row, and every payload row.
C9_ReplaceLeavesN ==
  ReplaceOfUnrelated
  => /\ ~last.raised
     /\ Cardinality(entries) = Len(last.seq)
     /\ entries \cap pre = {}
     /\ \A i \in DOMAIN last.seq : StoredRow(last.seq[i]) \in entries

\* C9 amended: a replace import of well-formed rows into a table of M
\* unrelated rows leaves exactly one row for each distinct key of the payload,
\* the last payload row of that key, and no earlier row.
C9_ReplaceLeavesLastOfEachKey ==
  ReplaceOfUnrelated
  => /\ ~last.raised
     /\ Cardinality(entries) = Cardinality(PayloadKeys(last.seq))
     /\ entries \cap pre = {}
     /\ entries = { LastOfKey(last.seq, k) : k \in PayloadKeys(last.seq) }

\* A replace import of two rows of one key, with different meanings, into a
\* table that held an unrelated row.
C9_Witness ==
  /\ ReplaceOfUnrelated
  /\ pre # {}
  /\ Len(last.seq) = 2
  /\ Cardinality(PayloadKeys(last.seq)) = 1
  /\ StoredRow(last.seq[1]) # StoredRow(last.seq[2])

\* C10: a merge import of well-formed rows deletes nothing: a row whose key is
\* not in the payload is unchanged, a row whose key is in the payload carries
\* the definition and context hint of the last payload row of that key, and a
\* payload row without sense_number is stored under sense_number 1.
C10_MergeFrame ==
  (last.op = "import_dictionary" /\ last.mode = "merge"
     /\ \A i \in DOMAIN last.seq : WellFormedEntry(last.seq[i]))
  => /\ ~last.raised
     /\ KeysOf(pre) \subseteq KeysOf(entries)
     /\ \A q \in pre : KeyOf(q) \notin PayloadKeys(last.seq) => q \in entries
     /\ \A q \in pre : KeyOf(q) \in PayloadKeys(last.seq) =>
          \E r \in entries :
            /\ KeyOf(r) = KeyOf(q)
            /\ r.definition = LastOfKey(last.seq, KeyOf(q)).definition
            /\ r.context_hint = LastOfKey(last.seq, KeyOf(q)).context_hint
     /\ \A i \in DOMAIN last.seq : "sense_number" \notin DOMAIN last.seq[i] =>
          \E r \in entries :
            /\ r.word = last.seq[i].word
            /\ r.category = last.seq[i].category
            /\ r.part_of_speech = last.seq[i].part_of_speech
            /\ r.sense_number = 1

\* A merge import that overwrites one row of the table and leaves another,
\* with a payload row that has no sense_number.
C10_Witness ==
  /\ last.op = "import_dictionary" /\ last.mode = "merge" /\ ~last.raised
  /\ \E q \in pre : KeyOf(q) \notin PayloadKeys(last.seq)
  /\ \E q \in pre : KeyOf(q) \in PayloadKeys(last.seq) /\ q \notin entries
  /\ \E i \in DOMAIN last.seq : "sense_number" \notin DOMAIN last.seq[i]

----------------------------------------------------------------------------
(* Properties of the contexts and settings tables (SpecContexts). *)

Names(seq) == { seq[i] : i \in DOMAIN seq }

WellFormedContextRows(data) == \A i \in DOMAIN data : "name" \in DOMAIN data[i]

InputNames(data) == { data[i].name : i \in DOMAIN data }

OnceEach(ctx) == \A n \in ContextNames : ctx[n] <= 1

\* C11 (as stated): no documented call on the contexts and settings tables,
\* import_contexts being given well-formed rows, ends in a storage error.
C11_NoStorageError ==
  (\/ last.op \in { "add_context", "rename_context", "delete_context", "set_setting" }
   \/ (last.op = "import_contexts" /\ WellFormedContextRows(last.seq)))
  => ~last.raised

\* C12: rename_context(old, new) with old present and new absent makes
\* get_contexts hold new and not old and leaves the dictionary table as it
\* was, context hints equal to old included; with old absent neither table
\* changes and nothing is raised.
C12_RenameFrame ==
  last.op = "rename_context" =>
    /\ (before.contexts[last.name] > 0 /\ before.contexts[last.new_name] = 0) =>
         /\ ~last.raised
         /\ last.new_name \in Names(get_contexts(contexts))
         /\ last.name \notin Names(get_contexts(contexts))
         /\ entries = pre
         /\ \A e \in pre : e.context_hint = last.name => e \in entries
    /\ before.contexts[last.name] = 0 =>
         /\ ~last.raised
         /\ contexts = before.contexts
         /\ entries = pre
         /\ settings = before.settings

\* A rename of a present name to an absent one, with a dictionary row whose
\* context hint is the old name.
C12_Witness ==
  /\ last.op = "rename_context"
  /\ before.contexts[last.name] > 0
  /\ before.contexts[last.new_name] = 0
  /\ \E e \in pre : e.context_hint = last.name
  /\ last.new_name \in NamesIn(contexts)

\* C13: no context name has two rows; add_context of a present name leaves
\* the table as it was, without error; add_context called twice with an
\* absent name leaves exactly one row of that name.
C13_UniqueIdempotent ==
  /\ OnceEach(contexts)
  /\ last.op = "add_context" =>
       /\ ~last.raised
       /\ (first = NoCall /\ before.contexts[last.name] > 0) =>
            contexts = before.contexts
       /\ (first # NoCall /\ before.contexts[last.name] = 0) =>
            /\ ~first.raised
            /\ contexts = [before.contexts EXCEPT ![last.name] = 1]
            /\ Len(SelectSeq(get_contexts(contexts), LAMBDA n : n = last.name)) = 1

\* add_context called twice with a name that had no row.
C13_Witness ==
  /\ last.op = "add_context"
  /\ first # NoCall
  /\ before.contexts[last.name] = 0
  /\ contexts[last.name] = 1

\* C14: import_contexts of well-formed rows in replace mode leaves exactly
\* the names of the input, each once; in merge mode it leaves the earlier
\* names and the input names, each once.
C14_ImportContexts ==
  (last.op = "import_contexts" /\ WellFormedContextRows(last.seq)) =>
    /\ ~last.raised
    /\ OnceEach(contexts)
    /\ last.mode = "replace" => NamesIn(contexts) = InputNames(last.seq)
    /\ last.mode = "merge" =>
         NamesIn(contexts) = NamesIn(before.contexts) \cup InputNames(last.seq)

\* A replace import that purges the defaults: the table held all ten of
\* them, the input names one default and one other name.
C14_Witness ==
  /\ last.op = "import_contexts"
  /\ last.mode = "replace"
  /\ WellFormedContextRows(last.seq)
  /\ Names(DefaultContexts) \subseteq NamesIn(before.contexts)
  /\ InputNames(last.seq) = { "Planet", "Galaxy" }
  /\ NamesIn(contexts) = { "Planet", "Galaxy" }

\* C17: constructing DictionaryDB again on a store leaves the dictionary and
\* the settings as they were, keeps every context, and leaves each of the
\* ten defaults present exactly once.
C17_ReopenIdempotent ==
  last.op = "__init__" =>
    /\ entries = pre
    /\ settings = before.settings
    /\ \A n \in NamesIn(before.contexts) : contexts[n] = before.contexts[n]
    /\ \A n \in Names(DefaultContexts) : contexts[n] = 1
    /\ NamesIn(contexts) = NamesIn(before.contexts) \cup Names(DefaultContexts)

\* The store held a dictionary row, a setting and a context that is not a
\* default, and lacked a default.
C17_Witness ==
  /\ last.op = "__init__"
  /\ pre # {}
  /\ before.settings # NoSettings
  /\ before.contexts["Galaxy"] > 0
  /\ before.contexts["Planet"] = 0
  /\ contexts["Planet"] = 1

----------------------------------------------------------------------------
(* Properties of the list of the dictionary (Spec). *)

\* C15: get_all_entries returns every row, sorted by word and then by
\* sense_number, both ascending; after one add_multiple_entries call that
\* gave a word, which had no row before, N tuples of pairwise distinct
\* senses, it returns exactly N rows of that word, in ascending sense order.
C15_SortedListing ==
  LET r == get_all_entries(entries)
      mine == SelectSeq(r, LAMBDA q : q.word = Lower(last.word))
  IN  /\ Len(r) = Cardinality(entries)
      /\ Names(r) = entries
      /\ \A i, j \in DOMAIN r : i < j =>
           /\ ~WordLess(r[j].word, r[i].word)
           /\ r[i].word = r[j].word => r[i].sense_number <= r[j].sense_number
      /\ (/\ last.op = "add_multiple_entries"
          /\ \A i \in DOMAIN last.seq : WellFormedTuple(last.seq[i])
          /\ \A i, j \in DOMAIN last.seq : i # j => last.seq[i][4] # last.seq[j][4]
          /\ \A q \in pre : q.word # Lower(last.word))
         => /\ Len(mine) = Len(last.seq)
            /\ \A i, j \in DOMAIN mine : i < j =>
                 mine[i].sense_number < mine[j].sense_number

\* A batch that gives a new word sense 2 and then sense 1: the listing has
\* the row of sense 1 first.
C15_Witness ==
  /\ last.op = "add_multiple_entries"
  /\ Len(last.seq) = 2
  /\ \A i \in DOMAIN last.seq : WellFormedTuple(last.seq[i])
  /\ last.seq[1][4] = 2
  /\ last.seq[2][4] = 1
  /\ \A q \in pre : q.word # Lower(last.word)
  /\ Len(get_all_entries(entries)) = 2
  /\ get_all_entries(entries)[1].sense_number = 1

\* C19 (as stated): after the confirmed deletion of one selected item, the
\* rows of the item's word and category are gone and every other row, rows
\* of the same word under another category included, is unchanged. Stated
\* for tables whose words are all lower case, which every write path but
\* import_dictionary keeps.
C19_DeleteSelectedFrame ==
  (last.op = "delete_selected" /\ \A q \in pre : q.word = Lower(q.word)) =>
    entries = { q \in pre : ~(q.word = last.word /\ q.category = last.category) }

----------------------------------------------------------------------------
(* Properties of the project archive (SpecProject). *)

\* A kind is imported when its member is in the archive and its mode is not
\* Skip.
Imported(member, item) == member \in DOMAIN archive /\ item # "Skip"

\* C16: in import_project, a kind whose mode is Skip or whose member the
\* archive lacks keeps its rows, whatever mode was requested, and raises no
\* error: when the method raises, a kind that was imported had a row that
\* lacks a key.
C16_SkipOrAbsent ==
  last.op = "import_project" =>
    /\ ~Imported("dictionary.json", last.dict_mode) => entries = pre
    /\ ~Imported("contexts.json", last.ctx_mode) => contexts = before.contexts
    /\ settings = before.settings
    /\ last.raised =>
         \/ /\ Imported("dictionary.json", last.dict_mode)
            /\ \E i \in DOMAIN archive["dictionary.json"] :
                 ~WellFormedEntry(archive["dictionary.json"][i])
         \/ /\ Imported("contexts.json", last.ctx_mode)
            /\ ~WellFormedContextRows(archive["contexts.json"])

\* Replace was requested for the dictionary of a store that holds a row, the
\* archive has no dictionary member, and the contexts member is skipped
\* although it differs from the contexts of the store.
C16_Witness ==
  /\ last.op = "import_project"
  /\ last.dict_mode = "Replace"
  /\ "dictionary.json" \notin DOMAIN archive
  /\ pre # {}
  /\ last.ctx_mode = "Skip"
  /\ "contexts.json" \in DOMAIN archive
  /\ export_contexts(contexts) # archive["contexts.json"]
  /\ ~last.raised

\* C20 (as stated): export_project of a store with a kind included, followed
\* by import_project of that archive with the kind's mode Replace, leaves
\* the importing store's rows of that kind equal to the exporting store's.
C20_ReplaceRoundTrip ==
  (last.op = "import_project" /\ first.op = "export_project") =>
    /\ (first.include_dict /\ last.dict_mode = "Replace") =>
         entries = source.dictionary
    /\ (first.include_ctx /\ last.ctx_mode = "Replace") =>
         contexts = source.contexts

----------------------------------------------------------------------------
(* Properties of the spellcheck (SpecSpellcheck). *)

====
